---- MODULE Spec2Model ----
(***************************************************************************)
(* A model of lib/luks2/hw_opal/hw_opal.c: the OPAL locking-range          *)
(* operations of cryptsetup (setup_ranges, lock/unlock, factory_reset,     *)
(* reset_segment, the status/geometry queries and the range verifier).     *)
(*                                                                         *)
(* The program is single-threaded and synchronous: one public operation    *)
(* is in flight at a time.  Every public operation is a small process with *)
(* a program counter; one action is one control call (ioctl) together with *)
(* the code that prepares it and branches on its result.  The drive and    *)
(* the kernel's sed-opal layer are the environment: they answer each       *)
(* control call from their own state, or with an injected fault.           *)
(*                                                                         *)
(* The model is of the build with HAVE_HW_OPAL (lines 1-773); without it   *)
(* every operation is a stub returning -ENOTSUP.                           *)
(***************************************************************************)
EXTENDS Integers, Sequences, FiniteSets, TLC

(* ------------------------------------------------------------------ *)
(* Bounds of the model                                                  *)
(* ------------------------------------------------------------------ *)
MaxKey == 2        \* key values 1..MaxKey (0 is "no key")
MaxSector == 1     \* requested range start/length in sectors: 0..MaxSector

Keys == 1..MaxKey
Sectors == 0..MaxSector

(* ------------------------------------------------------------------ *)
(* Program constants                                                    *)
(* ------------------------------------------------------------------ *)
EPERM == 1
EIO == 5
ENOMEM == 12
EINVAL == 22
ENOTSUP == 95

OPAL_STATUS_SUCCESS == 0
OPAL_STATUS_NOT_AUTHORIZED == 1
OPAL_STATUS_SP_BUSY == 3
OPAL_STATUS_FAIL == 63
OPAL_STATUS_MAX == 64

OPAL_KEY_MAX == 256
SECTOR_SIZE == 512
OPAL_ADMIN1 == 0
OPAL_RO == 1
OPAL_RW == 2
OPAL_LK == 4
NUM_LRS == 8

\* the segment number a caller manages: the first of the ranges
\* opal_setup_ranges activates (the code treats every segment number alike)
FirstLr == 1
Segs == {FirstLr}

\* ioctl() returns -1 when the system call itself fails
IOCTL_ERR == 0 - 1

\* what a control call can answer besides the drive's own answer: the
\* transport failing, and protocol statuses that do not depend on the key
NoInj == "none"
Inject == {NoInj, "neg", "busy"}
\* for the calls whose answer is only compared with OPAL_STATUS_SUCCESS
InjectPlain == {NoInj, "busy"}
\* for the calls whose answer is classified three ways, two more statuses
InjectAuth == Inject \cup {"fail", "above"}
InjStatus(inj) ==
    CASE inj = "neg" -> IOCTL_ERR
      [] inj = "busy" -> OPAL_STATUS_SP_BUSY
      [] inj = "fail" -> OPAL_STATUS_FAIL
      [] inj = "above" -> OPAL_STATUS_MAX
      [] OTHER -> OPAL_STATUS_SUCCESS

\* key lengths a caller passes: the maximum, and one byte more
KeyLens == {OPAL_KEY_MAX, OPAL_KEY_MAX + 1}
\* logical block sizes of the drive
BlockSizes == {SECTOR_SIZE, 8 * SECTOR_SIZE}

(* ------------------------------------------------------------------ *)
(* Parameter blocks of the control calls                                *)
(* ------------------------------------------------------------------ *)
\* one record shape for every parameter block; a field a block does not
\* have stays 0 (the code zero-initialises every block it builds)
Blank ==
    [ioc |-> "", who |-> 0, lr |-> 0, key |-> 0, key_len |-> 0,
     l_state |-> 0, range_start |-> 0, range_length |-> 0, RLE |-> 0, WLE |-> 0,
     new_who |-> 0, new_key |-> 0, new_len |-> 0, num_lrs |-> 0, save |-> 0]

Session(ioc, who, lr, key, len) ==
    [Blank EXCEPT !.ioc = ioc, !.who = who, !.lr = lr, !.key = key, !.key_len = len]

(* ------------------------------------------------------------------ *)
(* The drive and the kernel's sed-opal layer                            *)
(* ------------------------------------------------------------------ *)
FreshRange ==
    [start |-> 0, length |-> 0, RLE |-> 0, WLE |-> 0, l_state |-> OPAL_RW]

\* The model follows one locking range of the drive, the one the caller of
\* the operations manages (segs is the set holding its number).
\* caps: the capability bits of the status flags; owner: the SID/Admin1
\* password (0: never owned); enabled: locking SP activated; userPw: the
\* password of user authority seg+1 (0: none set); saved: the key the kernel
\* keeps for a range after IOC_OPAL_SAVE (0: none)
FreshDrive(caps, bs, segs) ==
    [caps |-> caps, block |-> bs, owner |-> 0, enabled |-> FALSE,
     range |-> [s \in segs |-> FreshRange],
     userOn |-> [s \in segs |-> FALSE],
     userPw |-> [s \in segs |-> 0],
     saved |-> [s \in segs |-> 0]]

Tracked(d) == DOMAIN d.range

\* the PSID printed on the drive
DrivePsid == MaxKey

Usable(d) == {"SUPPORTED", "LOCKING_SUPPORTED"} \subseteq d.caps

StatusFlags(d) == d.caps \cup (IF d.enabled THEN {"LOCKING_ENABLED"} ELSE {})

\* a drive that rounds what it is given down to an even number of blocks
RoundDown(v) == v - (v % 2)

NoOut == [flags |-> {}, block |-> 0, start |-> 0, length |-> 0,
          RLE |-> 0, WLE |-> 0, l_state |-> 0]

Answer(ret, d, out) == [ret |-> ret, drive |-> d, out |-> out]

AdminOk(d, q) == d.enabled /\ d.owner # 0 /\ q.key = d.owner
UserIdx(q) == q.who - 1
\* a kernel that never fills in a saved key
LockKey_NoSaved(d, q) == q.key

\* the key a lock-state change is authenticated with: the kernel fills in the
\* key it saved for the range when a lock request carries none
LockKey(d, q) ==
    IF q.key_len = 0 /\ q.l_state = OPAL_LK /\ q.lr \in Tracked(d) /\ d.saved[q.lr] # 0
    THEN d.saved[q.lr] ELSE q.key
UserOk(d, q, key) ==
    /\ d.enabled
    /\ UserIdx(q) \in Tracked(d)
    /\ q.lr \in Tracked(d)
    /\ d.userOn[UserIdx(q)]
    /\ d.userPw[UserIdx(q)] # 0
    /\ key = d.userPw[UserIdx(q)]

\* the drive's own answer to a control call, and the state it leaves.
\* quirk: "exact" | "round" (stores a rounded range) | "noenable" (ignores
\* the enable flags of a configure-range call) | "nolock" (accepts a
\* lock-state change without applying it)
DriveExec(d, q, quirk) ==
    CASE q.ioc = "GET_STATUS" ->
           Answer(OPAL_STATUS_SUCCESS, d, [NoOut EXCEPT !.flags = StatusFlags(d)])
      [] ~Usable(d) -> Answer(IOCTL_ERR, d, NoOut)
      [] q.ioc = "GET_GEOMETRY" ->
           Answer(OPAL_STATUS_SUCCESS, d, [NoOut EXCEPT !.block = d.block])
      [] q.ioc = "TAKE_OWNERSHIP" ->
           IF d.owner = 0 \/ d.owner = q.key
           THEN Answer(OPAL_STATUS_SUCCESS, [d EXCEPT !.owner = q.key], NoOut)
           ELSE Answer(OPAL_STATUS_NOT_AUTHORIZED, d, NoOut)
      [] q.ioc = "ACTIVATE_LSP" ->
           IF d.owner # 0 /\ d.owner = q.key
           THEN Answer(OPAL_STATUS_SUCCESS, [d EXCEPT !.enabled = TRUE], NoOut)
           ELSE Answer(OPAL_STATUS_NOT_AUTHORIZED, d, NoOut)
      [] q.ioc = "ERASE_LR" ->
           IF AdminOk(d, q) /\ q.lr \in Tracked(d)
           THEN Answer(OPAL_STATUS_SUCCESS,
                       [d EXCEPT !.range[q.lr] = FreshRange,
                                 !.userPw[q.lr] = 0], NoOut)
           ELSE Answer(OPAL_STATUS_NOT_AUTHORIZED, d, NoOut)
      [] q.ioc = "SECURE_ERASE_LR" ->
           IF AdminOk(d, q) /\ q.lr \in Tracked(d)
           THEN Answer(OPAL_STATUS_SUCCESS, d, NoOut)
           ELSE Answer(OPAL_STATUS_NOT_AUTHORIZED, d, NoOut)
      [] q.ioc = "ACTIVATE_USR" ->
           IF AdminOk(d, q) /\ UserIdx(q) \in Tracked(d)
           THEN Answer(OPAL_STATUS_SUCCESS,
                       [d EXCEPT !.userOn[UserIdx(q)] = TRUE], NoOut)
           ELSE Answer(OPAL_STATUS_NOT_AUTHORIZED, d, NoOut)
      [] q.ioc = "ADD_USR_TO_LR" ->
           IF AdminOk(d, q) /\ UserIdx(q) \in Tracked(d) /\ d.userOn[UserIdx(q)]
           THEN Answer(OPAL_STATUS_SUCCESS, d, NoOut)
           ELSE Answer(OPAL_STATUS_NOT_AUTHORIZED, d, NoOut)
      [] q.ioc = "SET_PW" ->
           IF AdminOk(d, q) /\ (q.new_who - 1) \in Tracked(d)
           THEN Answer(OPAL_STATUS_SUCCESS,
                       [d EXCEPT !.userPw[q.new_who - 1] = q.new_key], NoOut)
           ELSE Answer(OPAL_STATUS_NOT_AUTHORIZED, d, NoOut)
      [] q.ioc = "LR_SETUP" ->
           IF AdminOk(d, q) /\ q.lr \in Tracked(d)
           THEN Answer(OPAL_STATUS_SUCCESS,
                       [d EXCEPT !.range[q.lr] =
                          [start |-> IF quirk = "round" THEN RoundDown(q.range_start)
                                     ELSE q.range_start,
                           length |-> IF quirk = "round" THEN RoundDown(q.range_length)
                                      ELSE q.range_length,
                           RLE |-> IF quirk = "noenable" THEN 0 ELSE q.RLE,
                           WLE |-> IF quirk = "noenable" THEN 0 ELSE q.WLE,
                           l_state |-> OPAL_RW]], NoOut)
           ELSE Answer(OPAL_STATUS_NOT_AUTHORIZED, d, NoOut)
      [] q.ioc = "LOCK_UNLOCK" ->
           IF UserOk(d, q, LockKey(d, q))
           THEN Answer(OPAL_STATUS_SUCCESS,
                       IF quirk = "nolock" THEN d
                       ELSE [d EXCEPT !.range[q.lr].l_state = q.l_state], NoOut)
           ELSE Answer(OPAL_STATUS_NOT_AUTHORIZED, d, NoOut)
      [] q.ioc = "SAVE" ->
           IF q.lr \in Tracked(d)
           THEN Answer(OPAL_STATUS_SUCCESS, [d EXCEPT !.saved[q.lr] = q.key], NoOut)
           ELSE Answer(IOCTL_ERR, d, NoOut)
      [] q.ioc = "GET_LR_STATUS" ->
           IF UserOk(d, q, q.key)
           THEN Answer(OPAL_STATUS_SUCCESS, d,
                       [NoOut EXCEPT !.start = d.range[q.lr].start,
                                     !.length = d.range[q.lr].length,
                                     !.RLE = d.range[q.lr].RLE,
                                     !.WLE = d.range[q.lr].WLE,
                                     !.l_state = d.range[q.lr].l_state])
           ELSE Answer(OPAL_STATUS_NOT_AUTHORIZED, d, NoOut)
      [] q.ioc = "PSID_REVERT_TPR" ->
           IF q.key = DrivePsid
           THEN Answer(OPAL_STATUS_SUCCESS, FreshDrive(d.caps, d.block, Tracked(d)), NoOut)
           ELSE Answer(OPAL_STATUS_NOT_AUTHORIZED, d, NoOut)
      [] OTHER -> Answer(IOCTL_ERR, d, NoOut)

\* ioctl(fd, ...): the drive's answer, or the injected one (the drive is
\* then left as it was and the output block is not filled)
Ioctl(d, q, inj, quirk) ==
    IF inj = NoInj THEN DriveExec(d, q, quirk)
    ELSE Answer(InjStatus(inj), d, NoOut)

(* ------------------------------------------------------------------ *)
(* State                                                                *)
(* ------------------------------------------------------------------ *)
VARIABLES
    drive,      \* the drive's and the kernel's persistent state
    pc,         \* position of the operation in flight ("idle": none)
    op,         \* the public operation in flight
    args,       \* its arguments
    r,          \* its local r, the return value once pc = "done"
    calls,      \* the control calls it issued so far, with their answers
    heap,       \* crypt_safe_alloc'ed buffers not yet crypt_safe_free'd
    ptr,        \* its local pointers: the buffer each holds, or "NULL"
    stack,      \* the key held in its on-stack parameter block (0: zeroed)
    blk,        \* opal_block_bytes of the verifier
    chk,        \* the verifier's expectations (<<>>: omitted, <<v>>: given)
    faulted,    \* the environment misbehaved during the operation in flight
    entry,      \* what opal_lock_unlock found when it was called
    logged,     \* the checks of the verifier that logged a mismatch
    prev        \* the previous operation, when it was a lock or an unlock

vars == <<drive, pc, op, args, r, calls, heap, ptr, stack, blk, chk, faulted, entry, logged, prev>>

PtrNames == {"activate", "user_session", "user_add_to_lr", "new_pw", "setup", "lock", "lrs"}
NoPtrs == [p \in PtrNames |-> "NULL"]

NoArgs == [seg |-> 0, vk |-> 0, vk_len |-> 0, has_vk |-> FALSE,
           admin |-> 0, admin_len |-> 0, start |-> 0, length |-> 0, lock |-> FALSE]
NoChk == [off |-> <<>>, len |-> <<>>, rd |-> <<>>, wr |-> <<>>]
NoEntry == [locked |-> FALSE, saved |-> FALSE]
\* the range is locked, and the kernel holds its user key from an unlock
Entry(d, seg) ==
    [locked |-> d.range[seg].l_state = OPAL_LK,
     saved |-> (d.saved[seg] # 0 /\ d.saved[seg] = d.userPw[seg])]
NoPrev == [op |-> "none", seg |-> 0, ok |-> FALSE, saved |-> FALSE,
           faulted |-> FALSE, locked0 |-> FALSE, saved0 |-> FALSE]

Called(q, a) == [q |-> q, ret |-> a.ret, out |-> a.out]

\* crypt_safe_free(p): releases (and zeroes) the buffer p points to; no-op on NULL
SafeFree(h, pt, names) == h \ {pt[n] : n \in names}

Capabilities == {{}, {"SUPPORTED"}, {"SUPPORTED", "LOCKING_SUPPORTED"}}

Frame0 ==
    /\ pc = "idle"
    /\ op = "none"
    /\ args = NoArgs
    /\ r = 0
    /\ calls = <<>>
    /\ heap = {}
    /\ ptr = NoPtrs
    /\ stack = 0
    /\ blk = 0
    /\ chk = NoChk
    /\ faulted = FALSE
    /\ entry = NoEntry
    /\ logged = {}
    /\ prev = NoPrev

\* a drive as shipped
Init ==
    /\ \E caps \in Capabilities, bs \in BlockSizes, seg \in Segs :
          drive = FreshDrive(caps, bs, {seg})
    /\ Frame0

\* an operation returns value v
Finish(v) ==
    /\ pc' = "done"
    /\ r' = v

\* a public operation is entered with arguments a and goes to its first step
Begin(name, a, first) ==
    /\ pc = "idle"
    /\ op' = name
    /\ args' = a
    /\ pc' = first
    /\ UNCHANGED <<drive, r, calls, heap, ptr, stack, blk, faulted, logged, prev>>

(* ------------------------------------------------------------------ *)
(* opal_query_status, opal_supported, opal_enabled, opal_geometry       *)
(* ------------------------------------------------------------------ *)
GetStatusReq == Session("GET_STATUS", 0, 0, 0, 0)

opal_query_status(d, expected, openOk, inj) ==
    IF ~openOk THEN [ret |-> 0 - EIO, calls |-> <<>>, drive |-> d]
    ELSE LET a == Ioctl(d, GetStatusReq, inj, "exact")
         IN [ret |-> IF a.ret < 0 THEN 0 - EINVAL
                     ELSE IF (a.out.flags \cap expected) # {} THEN 1 ELSE 0,
             calls |-> <<Called(GetStatusReq, a)>>,
             drive |-> a.drive]

opal_supported(d, openOk, inj) ==
    opal_query_status(d, {"SUPPORTED", "LOCKING_SUPPORTED"}, openOk, inj)

opal_enabled(d, openOk, inj) ==
    opal_query_status(d, {"LOCKING_ENABLED"}, openOk, inj)

\* an injected answer is looked at only when the handle was opened
Env(openOk, inj) == openOk \/ inj = NoInj

CallSupported ==
    /\ pc = "idle"
    /\ \E openOk \in BOOLEAN, inj \in Inject :
        LET res == opal_supported(drive, openOk, inj) IN
        /\ Env(openOk, inj)
        /\ op' = "supported"
        /\ faulted' = (~openOk \/ inj # NoInj)
        /\ calls' = res.calls
        /\ drive' = res.drive
        /\ Finish(res.ret)
        /\ UNCHANGED <<args, heap, ptr, stack, blk, chk, entry, logged, prev>>

CallEnabled ==
    /\ pc = "idle"
    /\ \E openOk \in BOOLEAN, inj \in Inject :
        LET res == opal_enabled(drive, openOk, inj) IN
        /\ Env(openOk, inj)
        /\ op' = "enabled"
        /\ faulted' = (~openOk \/ inj # NoInj)
        /\ calls' = res.calls
        /\ drive' = res.drive
        /\ Finish(res.ret)
        /\ UNCHANGED <<args, heap, ptr, stack, blk, chk, entry, logged, prev>>

GeometryReq == Session("GET_GEOMETRY", 0, 0, 0, 0)

\* opal_geometry_fd: the status of the query; the block size is valid on success
opal_geometry_fd(d, inj) ==
    LET a == Ioctl(d, GeometryReq, inj, "exact")
    IN [ret |-> a.ret, block |-> a.out.block, calls |-> <<Called(GeometryReq, a)>>,
        drive |-> a.drive]

CallGeometry ==
    /\ pc = "idle"
    /\ \E openOk \in BOOLEAN, inj \in Inject :
        LET res == opal_geometry_fd(drive, inj) IN
        /\ Env(openOk, inj)
        /\ op' = "geometry"
        /\ faulted' = (~openOk \/ inj # NoInj)
        /\ IF ~openOk
           THEN calls' = <<>> /\ blk' = 0 /\ drive' = drive /\ Finish(0 - EIO)
           ELSE /\ calls' = res.calls /\ blk' = res.block /\ drive' = res.drive
                /\ Finish(res.ret)
        /\ UNCHANGED <<args, heap, ptr, stack, chk, entry, logged, prev>>

(* ------------------------------------------------------------------ *)
(* opal_lock_unlock, opal_lock, opal_unlock                             *)
(* ------------------------------------------------------------------ *)
\* the parameter block: l_state, who = segment_number + 1, lr; the key is
\* copied in only when unlocking
\* LockUnlockReq addressed to the authority numbered like the segment
LockUnlockReq_WrongUser(a) ==
    [Session("LOCK_UNLOCK", a.seg, a.seg,
             IF a.lock THEN 0 ELSE a.vk,
             IF a.lock THEN 0 ELSE a.vk_len)
     EXCEPT !.l_state = IF a.lock THEN OPAL_LK ELSE OPAL_RW]

\* LockUnlockReq asking for the unlocked state whatever the caller wants
LockUnlockReq_AlwaysRw(a) ==
    [Session("LOCK_UNLOCK", a.seg + 1, a.seg,
             IF a.lock THEN 0 ELSE a.vk,
             IF a.lock THEN 0 ELSE a.vk_len)
     EXCEPT !.l_state = OPAL_RW]

LockUnlockReq(a) ==
    [Session("LOCK_UNLOCK", a.seg + 1, a.seg,
             IF a.lock THEN 0 ELSE a.vk,
             IF a.lock THEN 0 ELSE a.vk_len)
     EXCEPT !.l_state = IF a.lock THEN OPAL_LK ELSE OPAL_RW]

\* ClassifyAuth taking a negative result for an ordinary failure
ClassifyAuth_NegInvalid(ret) ==
    IF ret = OPAL_STATUS_NOT_AUTHORIZED THEN 0 - EPERM
    ELSE IF ret # OPAL_STATUS_SUCCESS THEN 0 - EINVAL
    ELSE 0

\* ClassifyAuth without the permission-denied case
ClassifyAuth_NoEperm(ret) ==
    IF ret < 0 THEN 0 - ENOTSUP
    ELSE IF ret # OPAL_STATUS_SUCCESS THEN 0 - EINVAL
    ELSE 0

\* the classification of the first authenticated control call of an operation
ClassifyAuth(ret) ==
    IF ret < 0 THEN 0 - ENOTSUP
    ELSE IF ret = OPAL_STATUS_NOT_AUTHORIZED THEN 0 - EPERM
    ELSE IF ret # OPAL_STATUS_SUCCESS THEN 0 - EINVAL
    ELSE 0

CallLock ==
    /\ \E seg \in Tracked(drive) :
        /\ Begin("lock", [NoArgs EXCEPT !.seg = seg, !.lock = TRUE], "l_supported")
        /\ entry' = Entry(drive, seg)
    /\ chk' = chk

CallUnlock ==
    /\ \E seg \in Tracked(drive), has_vk \in BOOLEAN, vk \in Keys, len \in KeyLens :
        /\ ~has_vk => (vk = 1 /\ len = OPAL_KEY_MAX)
        /\ Begin("unlock",
              [NoArgs EXCEPT !.seg = seg, !.lock = FALSE, !.has_vk = has_vk,
                             !.vk = IF has_vk THEN vk ELSE 0,
                             !.vk_len = IF has_vk THEN len ELSE 0],
              "l_supported")
        /\ entry' = Entry(drive, seg)
    /\ chk' = chk

\* everything up to the lock-state-change call: opal_supported, the key
\* requirement, device_open, the assert on the key length (a build with the
\* assert aborts, a build without goes on) and the key copy
LockUnlockSupported ==
    /\ pc = "l_supported"
    /\ \E openQ \in BOOLEAN, inj \in Inject, openOk \in BOOLEAN, ndebug \in BOOLEAN :
        LET sup == opal_supported(drive, openQ, inj)
            long == ~args.lock /\ args.vk_len > OPAL_KEY_MAX
            opens == sup.ret > 0 /\ (args.lock \/ args.has_vk)
        IN
        /\ Env(openQ, inj)
        /\ ~opens => openOk
        /\ ~(opens /\ openOk /\ long) => ndebug
        /\ faulted' = (~openQ \/ inj # NoInj \/ ~openOk)
        /\ calls' = sup.calls
        /\ IF sup.ret <= 0 THEN Finish(0 - ENOTSUP) /\ stack' = 0
           ELSE IF ~args.lock /\ ~args.has_vk THEN Finish(0 - EINVAL) /\ stack' = 0
           ELSE IF ~openOk THEN Finish(0 - EIO) /\ stack' = 0
           ELSE IF long /\ ~ndebug THEN pc' = "aborted" /\ r' = r /\ stack' = 0
           ELSE pc' = "l_ioctl" /\ r' = r /\ stack' = (IF args.lock THEN 0 ELSE args.vk)
        /\ UNCHANGED <<drive, op, args, heap, ptr, blk, chk, entry, logged, prev>>

\* out: of opal_lock_unlock: the key copy is zeroed when unlocking
LockUnlockOut(v) ==
    /\ Finish(v)
    /\ stack' = (IF ~args.lock THEN 0 ELSE stack)

LockUnlockIoctl ==
    /\ pc = "l_ioctl"
    /\ \E inj \in InjectAuth, quirk \in {"exact", "nolock"} :
        LET q == LockUnlockReq(args)
            a == Ioctl(drive, q, inj, quirk)
        IN
        /\ inj # NoInj => quirk = "exact"
        /\ calls' = Append(calls, Called(q, a))
        /\ drive' = a.drive
        /\ faulted' = (faulted \/ inj # NoInj \/ quirk # "exact")
        /\ IF ClassifyAuth(a.ret) # 0 THEN LockUnlockOut(ClassifyAuth(a.ret))
           ELSE IF ~args.lock THEN pc' = "l_save" /\ UNCHANGED <<r, stack>>
           ELSE LockUnlockOut(0)
        /\ UNCHANGED <<op, args, heap, ptr, blk, chk, entry, logged, prev>>

\* LockUnlockSave returning the failure of the save call to the caller
LockUnlockSave_Propagate ==
    /\ pc = "l_save"
    /\ \E inj \in Inject :
        LET q == [LockUnlockReq(args) EXCEPT !.ioc = "SAVE", !.save = 1]
            a == Ioctl(drive, q, inj, "exact")
        IN
        /\ calls' = Append(calls, Called(q, a))
        /\ drive' = a.drive
        /\ faulted' = (faulted \/ inj # NoInj)
        /\ LockUnlockOut(IF a.ret # OPAL_STATUS_SUCCESS THEN 0 - EINVAL ELSE a.ret)
        /\ UNCHANGED <<op, args, heap, ptr, blk, chk, entry, logged, prev>>

LockUnlockSave ==
    /\ pc = "l_save"
    /\ \E inj \in Inject :
        LET q == [LockUnlockReq(args) EXCEPT !.ioc = "SAVE", !.save = 1]
            a == Ioctl(drive, q, inj, "exact")
        IN
        /\ calls' = Append(calls, Called(q, a))
        /\ drive' = a.drive
        /\ faulted' = (faulted \/ inj # NoInj)
        /\ LockUnlockOut(IF a.ret # OPAL_STATUS_SUCCESS THEN 0 ELSE a.ret)
        /\ UNCHANGED <<op, args, heap, ptr, blk, chk, entry, logged, prev>>

(* ------------------------------------------------------------------ *)
(* opal_factory_reset                                                   *)
(* ------------------------------------------------------------------ *)
\* the length check that precedes everything else
CallFactoryReset ==
    /\ pc = "idle"
    /\ \E password \in Keys, len \in KeyLens :
        /\ op' = "factory_reset"
        /\ args' = [NoArgs EXCEPT !.admin = password, !.admin_len = len]
        /\ IF len > OPAL_KEY_MAX THEN Finish(0 - EINVAL)
           ELSE pc' = "f_ioctl" /\ r' = r
    /\ UNCHANGED <<drive, calls, heap, ptr, stack, blk, chk, faulted, entry, logged, prev>>

PsidRevertReq(a) == Session("PSID_REVERT_TPR", 0, 0, a.admin, a.admin_len)

\* device_open, the key copy, the revert call, and out: zeroing the copy
FactoryResetIoctl ==
    /\ pc = "f_ioctl"
    /\ \E openOk \in BOOLEAN, inj \in InjectAuth :
        LET q == PsidRevertReq(args)
            a == Ioctl(drive, q, inj, "exact")
        IN
        /\ Env(openOk, inj)
        /\ faulted' = (~openOk \/ inj # NoInj)
        /\ IF ~openOk
           THEN /\ Finish(0 - EIO)
                /\ UNCHANGED <<calls, drive>>
           ELSE /\ calls' = Append(calls, Called(q, a))
                /\ drive' = a.drive
                /\ Finish(ClassifyAuth(a.ret))
        /\ stack' = 0
        /\ UNCHANGED <<op, args, heap, ptr, blk, chk, entry, logged, prev>>

(* ------------------------------------------------------------------ *)
(* Steps shared by opal_setup_ranges and opal_reset_segment             *)
(* ------------------------------------------------------------------ *)
\* the pointers the out: label of an operation hands to crypt_safe_free
OutPtrs(name) ==
    IF name = "setup_ranges"
    THEN {"activate", "user_session", "user_add_to_lr", "new_pw", "setup", "lock"}
    ELSE IF name = "reset_segment" THEN {"user_session", "setup"}
    ELSE {}

\* continue at label l with r = v, or ("out") run the out: label and return v
Goto(l, v, h, p) ==
    IF l = "out"
    THEN heap' = SafeFree(h, p, OutPtrs(op)) /\ Finish(v)
    ELSE heap' = h /\ pc' = l /\ r' = v

\* every step that is not special-cased: a non-zero answer is -EINVAL
Plain(ret, l) ==
    IF ret # OPAL_STATUS_SUCCESS THEN [v |-> 0 - EINVAL, l |-> "out"]
    ELSE [v |-> ret, l |-> l]

\* one step: an optional crypt_safe_alloc into pointer pname (at site), the
\* parameter block q, the control call, and the branch After(ret) on its answer
Step(label, pname, site, q, injs, quirks, After(_)) ==
    /\ pc = label
    /\ \E okAlloc \in BOOLEAN, inj \in injs, quirk \in quirks :
        LET p2 == IF pname = "" THEN ptr
                  ELSE [ptr EXCEPT ![pname] = IF okAlloc THEN site ELSE "NULL"]
            h2 == IF pname # "" /\ okAlloc THEN heap \cup {site} ELSE heap
            a == Ioctl(drive, q, inj, quirk)
        IN
        /\ pname = "" => okAlloc
        /\ ~okAlloc => (inj = NoInj /\ quirk = "exact")
        /\ inj # NoInj => quirk = "exact"
        /\ ptr' = p2
        /\ IF ~okAlloc
           THEN /\ drive' = drive
                /\ calls' = calls
                /\ faulted' = TRUE
                /\ Goto("out", 0 - ENOMEM, h2, p2)
           ELSE /\ drive' = a.drive
                /\ calls' = Append(calls, Called(q, a))
                /\ faulted' = (faulted \/ inj # NoInj \/ quirk # "exact")
                /\ Goto(After(a.ret).l, After(a.ret).v, h2, p2)
        /\ UNCHANGED <<op, args, stack, blk, chk, entry, logged, prev>>

(* ------------------------------------------------------------------ *)
(* opal_range_check_attributes_fd, opal_range_check_attributes          *)
(* ------------------------------------------------------------------ *)
\* LrStatusReq asking for the range to be unlocked
LrStatusReq_Unlock(a) ==
    [Session("LOCK_UNLOCK", a.seg + 1, a.seg, a.vk, a.vk_len) EXCEPT !.l_state = OPAL_RW]

LrStatusReq(a) == Session("GET_LR_STATUS", a.seg + 1, a.seg, a.vk, a.vk_len)

ToSectors(blocks, block_bytes) == (blocks * block_bytes) \div SECTOR_SIZE

read_locked(l_state) == l_state = OPAL_LK
\* the bitwise and of two naturals
RECURSIVE BitAnd(_, _)
BitAnd(x, y) ==
    IF x = 0 \/ y = 0 THEN 0
    ELSE (x % 2) * (y % 2) + 2 * BitAnd(x \div 2, y \div 2)
\* write_locked taking a read-only range for a writable one
write_locked_OnlyLk(l_state) == l_state = OPAL_LK
\* !!(l_state & (OPAL_RO | OPAL_LK)); the two bits are distinct
write_locked(l_state) == BitAnd(l_state, OPAL_RO + OPAL_LK) # 0

\* Mismatch taking an omitted expectation for a failed one
Mismatch_OmittedFails(expected, got) == Len(expected) = 0 \/ got # expected[1]

Mismatch(expected, got) == Len(expected) > 0 /\ got # expected[1]

\* the checks that log an error: each one is evaluated, whatever the ones
\* before it found
MismatchLog(out, block_bytes, c) ==
    {m \in {"offset", "length", "disabled", "read", "write"} :
        \/ m = "offset" /\ Mismatch(c.off, ToSectors(out.start, block_bytes))
        \/ m = "length" /\ Mismatch(c.len, ToSectors(out.length, block_bytes))
        \/ m = "disabled" /\ (out.RLE = 0 \/ out.WLE = 0)
        \/ m = "read" /\ Mismatch(c.rd, read_locked(out.l_state))
        \/ m = "write" /\ Mismatch(c.wr, write_locked(out.l_state))}

\* CheckAttributes without the test of the two enable flags
CheckAttributes_NoEnable(out, block_bytes, c) ==
    IF \/ Mismatch(c.off, ToSectors(out.start, block_bytes))
       \/ Mismatch(c.len, ToSectors(out.length, block_bytes))
       \/ Mismatch(c.rd, read_locked(out.l_state))
       \/ Mismatch(c.wr, write_locked(out.l_state))
    THEN 0 - EINVAL ELSE 0

\* the checks on a range status read back: every check is evaluated, any
\* failed check leaves r = -EINVAL
CheckAttributes(out, block_bytes, c) ==
    IF \/ Mismatch(c.off, ToSectors(out.start, block_bytes))
       \/ Mismatch(c.len, ToSectors(out.length, block_bytes))
       \/ out.RLE = 0 \/ out.WLE = 0
       \/ Mismatch(c.rd, read_locked(out.l_state))
       \/ Mismatch(c.wr, write_locked(out.l_state))
    THEN 0 - EINVAL ELSE 0

\* what opal_setup_ranges asks the verifier to check: the requested start and
\* length, read-locked and write-locked
SetupExpect(a) ==
    [off |-> <<a.start>>, len |-> <<a.length>>, rd |-> <<TRUE>>, wr |-> <<TRUE>>]

Expectations == IF op = "setup_ranges" THEN SetupExpect(args) ELSE chk

\* the verifier returns v: to opal_setup_ranges (which falls into its out:
\* label) or to the caller of opal_range_check_attributes
VerifierReturn(v, h) ==
    IF op = "setup_ranges"
    THEN heap' = SafeFree(h, ptr, OutPtrs(op)) /\ Finish(v)
    ELSE heap' = h /\ Finish(v)

VerifyGeometry ==
    /\ pc = "v_geometry"
    /\ \E inj \in InjectPlain :
        LET g == opal_geometry_fd(drive, inj) IN
        /\ calls' = calls \o g.calls
        /\ drive' = g.drive
        /\ faulted' = (faulted \/ inj # NoInj)
        /\ IF g.ret # OPAL_STATUS_SUCCESS
           THEN VerifierReturn(0 - EINVAL, heap) /\ blk' = blk
           ELSE pc' = "v_status" /\ blk' = g.block /\ UNCHANGED <<heap, r>>
        /\ UNCHANGED <<op, args, ptr, stack, chk, entry, logged, prev>>

\* lrs is allocated, filled with the key, used for the query and released
\* before the verifier returns; copying a key longer than the key array
\* overruns the buffer (the build either goes on or crashes)
VerifyStatus ==
    /\ pc = "v_status"
    /\ \E okAlloc \in BOOLEAN, inj \in InjectPlain, crash \in BOOLEAN :
        LET q == LrStatusReq(args)
            a == Ioctl(drive, q, inj, "exact")
        IN
        /\ crash => (okAlloc /\ args.vk_len > OPAL_KEY_MAX)
        /\ (~okAlloc \/ crash) => inj = NoInj
        /\ IF ~okAlloc
           THEN /\ calls' = calls
                /\ drive' = drive
                /\ faulted' = TRUE
                /\ VerifierReturn(0 - ENOMEM, heap)
           ELSE IF crash
           THEN /\ calls' = calls
                /\ drive' = drive
                /\ faulted' = faulted
                /\ pc' = "aborted"
                /\ heap' = heap \cup {"lrs@151"}
                /\ r' = r
           ELSE /\ calls' = Append(calls, Called(q, a))
                /\ drive' = a.drive
                /\ faulted' = (faulted \/ inj # NoInj)
                /\ VerifierReturn(IF a.ret # OPAL_STATUS_SUCCESS THEN 0 - EINVAL
                                  ELSE CheckAttributes(a.out, blk, Expectations),
                                  SafeFree(heap \cup {"lrs@151"},
                                           [ptr EXCEPT !.lrs = "lrs@151"], {"lrs"}))
        /\ logged' = IF okAlloc /\ ~crash /\ a.ret = OPAL_STATUS_SUCCESS
                     THEN MismatchLog(a.out, blk, Expectations)
                     ELSE logged
        /\ UNCHANGED <<op, args, ptr, stack, blk, chk, entry, prev>>

Optional(S) == {<<>>} \cup {<<v>> : v \in S}

\* opal_range_check_attributes: device_open, then the verifier
CallRangeCheck ==
    /\ pc = "idle"
    /\ \E seg \in Tracked(drive), vk \in Keys, len \in KeyLens, openOk \in BOOLEAN,
          off \in Optional(Sectors), ln \in Optional(Sectors),
          rd \in Optional(BOOLEAN), wr \in Optional(BOOLEAN) :
        /\ op' = "range_check_attributes"
        /\ args' = [NoArgs EXCEPT !.seg = seg, !.vk = vk, !.vk_len = len, !.has_vk = TRUE]
        /\ faulted' = ~openOk
        /\ chk' = [off |-> off, len |-> ln, rd |-> rd, wr |-> wr]
        /\ IF ~openOk THEN Finish(0 - EIO) ELSE pc' = "v_geometry" /\ r' = r
    /\ UNCHANGED <<drive, calls, heap, ptr, stack, blk, entry, logged, prev>>

(* ------------------------------------------------------------------ *)
(* opal_setup_ranges                                                    *)
(* ------------------------------------------------------------------ *)
\* the entry checks: the assert on the volume key length (a build with the
\* assert aborts, a build without goes on) and the admin key length; an
\* oversize volume key is tried with one range only
CallSetupRanges ==
    /\ pc = "idle"
    /\ \E seg \in Tracked(drive), vk \in Keys, vk_len \in KeyLens, admin \in Keys,
          admin_len \in KeyLens, start \in Sectors, length \in Sectors,
          ndebug \in BOOLEAN :
        /\ vk_len <= OPAL_KEY_MAX => ndebug
        /\ vk_len > OPAL_KEY_MAX => (start = 0 /\ length = 0)
        /\ op' = "setup_ranges"
        /\ args' = [NoArgs EXCEPT !.seg = seg, !.vk = vk, !.vk_len = vk_len,
                                  !.has_vk = TRUE, !.admin = admin,
                                  !.admin_len = admin_len, !.start = start,
                                  !.length = length]
        /\ IF vk_len > OPAL_KEY_MAX /\ ~ndebug THEN pc' = "aborted" /\ r' = r
           ELSE IF admin_len > OPAL_KEY_MAX THEN Finish(0 - EINVAL)
           ELSE pc' = "s_open" /\ r' = r
    /\ UNCHANGED <<drive, calls, heap, ptr, stack, blk, chk, faulted, entry, logged, prev>>

\* device_open and the opal_enabled query, which opens the drive itself
SetupOpen ==
    /\ pc = "s_open"
    /\ \E openOk \in BOOLEAN, openQ \in BOOLEAN, inj \in Inject :
        LET en == opal_enabled(drive, openQ, inj) IN
        /\ Env(openQ, inj)
        /\ ~openOk => openQ
        /\ faulted' = (~openOk \/ ~openQ \/ inj # NoInj)
        /\ IF ~openOk THEN Finish(0 - EIO) /\ calls' = calls
           ELSE /\ calls' = calls \o en.calls
                /\ IF en.ret < 0 THEN Finish(en.ret)
                   ELSE IF en.ret = 0 THEN pc' = "s_take_ownership" /\ r' = en.ret
                   ELSE pc' = "s_erase" /\ r' = en.ret
    /\ UNCHANGED <<drive, op, args, heap, ptr, stack, blk, chk, entry, logged, prev>>

TakeOwnershipReq(a) == Session("TAKE_OWNERSHIP", 0, 0, a.admin, a.admin_len)

\* AfterTakeOwnership without the -ENOTSUP and -EPERM special cases
AfterTakeOwnership_Plain(ret) == Plain(ret, "s_activate_lsp")

AfterTakeOwnership(ret) ==
    IF ClassifyAuth(ret) # 0 THEN [v |-> ClassifyAuth(ret), l |-> "out"]
    ELSE [v |-> ret, l |-> "s_activate_lsp"]

SetupTakeOwnership ==
    Step("s_take_ownership", "activate", "activate@254", TakeOwnershipReq(args),
         InjectAuth, {"exact"}, AfterTakeOwnership)

ActivateLspReq(a) ==
    [Session("ACTIVATE_LSP", 0, 0, a.admin, a.admin_len) EXCEPT !.num_lrs = NUM_LRS]

\* AfterActivateLsp going on to the user setup whatever the answer
AfterActivateLsp_GoOn(ret) == [v |-> ret, l |-> "s_activate_usr"]

AfterActivateLsp(ret) == Plain(ret, "s_activate_usr")

SetupActivateLsp ==
    Step("s_activate_lsp", "", "", ActivateLspReq(args), InjectPlain, {"exact"},
         AfterActivateLsp)

EraseReq(a) == Session("ERASE_LR", OPAL_ADMIN1, a.seg, a.admin, a.admin_len)

AfterSetupErase(ret) ==
    IF ret # OPAL_STATUS_SUCCESS THEN [v |-> ret, l |-> "s_secure_erase"]
    ELSE [v |-> ret, l |-> "s_activate_usr"]

SetupErase ==
    Step("s_erase", "user_session", "user_session@299", EraseReq(args),
         InjectPlain, {"exact"}, AfterSetupErase)

SecureEraseReq(a) == [EraseReq(a) EXCEPT !.ioc = "SECURE_ERASE_LR"]

AfterSetupSecureErase(ret) == Plain(ret, "s_activate_usr")

SetupSecureErase ==
    Step("s_secure_erase", "", "", SecureEraseReq(args), InjectPlain, {"exact"},
         AfterSetupSecureErase)

ActivateUsrReq(a) == Session("ACTIVATE_USR", a.seg + 1, 0, a.admin, a.admin_len)

AfterActivateUsr(ret) == Plain(ret, "s_add_usr_ro")

\* user_session is assigned a new buffer here whatever it pointed to before
SetupActivateUsr ==
    Step("s_activate_usr", "user_session", "user_session@327", ActivateUsrReq(args),
         InjectPlain, {"exact"}, AfterActivateUsr)

AddUsrToLrReq(a, l_state) ==
    [Session("ADD_USR_TO_LR", a.seg + 1, a.seg, a.admin, a.admin_len)
     EXCEPT !.l_state = l_state]

\* AfterAddUsrRo going on without the read-write grant
AfterAddUsrRo_SkipRw(ret) == Plain(ret, "s_set_pw")

AfterAddUsrRo(ret) == Plain(ret, "s_add_usr_rw")

SetupAddUsrRo ==
    Step("s_add_usr_ro", "user_add_to_lr", "user_add_to_lr@348",
         AddUsrToLrReq(args, OPAL_RO), InjectPlain, {"exact"}, AfterAddUsrRo)

AfterAddUsrRw(ret) == Plain(ret, "s_set_pw")

SetupAddUsrRw ==
    Step("s_add_usr_rw", "", "", AddUsrToLrReq(args, OPAL_RW), InjectPlain, {"exact"},
         AfterAddUsrRw)

SetPwReq(a) ==
    [Session("SET_PW", OPAL_ADMIN1, a.seg, a.admin, a.admin_len)
     EXCEPT !.new_who = a.seg + 1, !.new_key = a.vk, !.new_len = a.vk_len]

\* AfterSetPw going on to the configure-range call whatever the answer
AfterSetPw_GoOn(ret) == [v |-> ret, l |-> "s_lr_setup"]

AfterSetPw(ret) == Plain(ret, "s_lr_setup")

SetupSetPw ==
    Step("s_set_pw", "new_pw", "new_pw@381", SetPwReq(args), InjectPlain, {"exact"},
         AfterSetPw)

\* range_start and range_length are passed on as they were given
LrSetupReq(a) ==
    [Session("LR_SETUP", OPAL_ADMIN1, a.seg, a.admin, a.admin_len)
     EXCEPT !.range_start = a.start, !.range_length = a.length,
            !.RLE = 1, !.WLE = 1]

AfterLrSetup(ret) == Plain(ret, "s_lock")

SetupLrSetup ==
    Step("s_lr_setup", "setup", "setup@415", LrSetupReq(args), InjectPlain,
         {"exact", "round", "noenable"}, AfterLrSetup)

SetupLockReq(a) ==
    [Session("LOCK_UNLOCK", a.seg + 1, a.seg, a.vk, a.vk_len)
     EXCEPT !.l_state = OPAL_LK]

AfterSetupLock(ret) == Plain(ret, "v_geometry")

SetupLock ==
    Step("s_lock", "lock", "lock@449", SetupLockReq(args), InjectPlain,
         {"exact", "nolock"}, AfterSetupLock)

(* ------------------------------------------------------------------ *)
(* opal_reset_segment                                                   *)
(* ------------------------------------------------------------------ *)
\* the length check that precedes everything else
CallResetSegment ==
    /\ pc = "idle"
    /\ \E seg \in Tracked(drive), password \in Keys, len \in KeyLens :
        /\ op' = "reset_segment"
        /\ args' = [NoArgs EXCEPT !.seg = seg, !.admin = password, !.admin_len = len]
        /\ IF len > OPAL_KEY_MAX THEN Finish(0 - EINVAL)
           ELSE pc' = "r_enabled" /\ r' = r
    /\ UNCHANGED <<drive, calls, heap, ptr, stack, blk, chk, faulted, entry, logged, prev>>

\* ResetEnabled going on when opal_enabled says the locking is not enabled
ResetEnabled_GoOn ==
    /\ pc = "r_enabled"
    /\ \E openQ \in BOOLEAN, inj \in Inject :
        LET en == opal_enabled(drive, openQ, inj)
            p2 == [ptr EXCEPT !.user_session = "user_session@640"]
        IN
        /\ Env(openQ, inj)
        /\ faulted' = (~openQ \/ inj # NoInj)
        /\ calls' = calls \o en.calls
        /\ IF en.ret < 0 THEN Finish(0 - EINVAL) /\ UNCHANGED <<heap, ptr>>
           ELSE /\ ptr' = p2
                /\ heap' = heap \cup {"user_session@640"}
                /\ pc' = "r_erase"
                /\ r' = r
    /\ UNCHANGED <<drive, op, args, stack, blk, chk, entry, logged, prev>>

\* the opal_enabled query, the allocation of user_session and device_open
ResetEnabled ==
    /\ pc = "r_enabled"
    /\ \E openQ \in BOOLEAN, inj \in Inject, okAlloc \in BOOLEAN, openOk \in BOOLEAN :
        LET en == opal_enabled(drive, openQ, inj)
            p2 == [ptr EXCEPT !.user_session = "user_session@640"]
        IN
        /\ Env(openQ, inj)
        /\ en.ret <= 0 => (okAlloc /\ openOk)
        /\ ~okAlloc => openOk
        /\ faulted' = (~openQ \/ inj # NoInj \/ ~okAlloc \/ ~openOk)
        /\ calls' = calls \o en.calls
        /\ IF en.ret <= 0 THEN Finish(0 - EINVAL) /\ UNCHANGED <<heap, ptr>>
           ELSE IF ~okAlloc THEN Finish(0 - ENOMEM) /\ UNCHANGED <<heap, ptr>>
           ELSE IF ~openOk
                THEN /\ ptr' = p2
                     /\ heap' = SafeFree(heap \cup {"user_session@640"}, p2,
                                         OutPtrs("reset_segment"))
                     /\ Finish(0 - EIO)
           ELSE /\ ptr' = p2
                /\ heap' = heap \cup {"user_session@640"}
                /\ pc' = "r_erase"
                /\ r' = r
    /\ UNCHANGED <<drive, op, args, stack, blk, chk, entry, logged, prev>>

AfterResetErase(ret) ==
    IF ret # OPAL_STATUS_SUCCESS THEN [v |-> ret, l |-> "r_secure_erase"]
    ELSE [v |-> ret, l |-> "out"]

ResetErase ==
    Step("r_erase", "", "", EraseReq(args), InjectPlain, {"exact"}, AfterResetErase)

AfterResetSecureErase(ret) == Plain(ret, "r_lr_setup")

ResetSecureErase ==
    Step("r_secure_erase", "", "", SecureEraseReq(args), InjectPlain, {"exact"},
         AfterResetSecureErase)

\* DisableRangeReq with a stale range start
DisableRangeReq_Stale(a) ==
    [Session("LR_SETUP", OPAL_ADMIN1, a.seg, a.admin, a.admin_len)
     EXCEPT !.range_start = 1, !.range_length = 0]

\* the range is zeroed; the session key block is copied from user_session
DisableRangeReq(a) ==
    [Session("LR_SETUP", OPAL_ADMIN1, a.seg, a.admin, a.admin_len)
     EXCEPT !.range_start = 0, !.range_length = 0]

AfterDisableRange(ret) == Plain(ret, "out")

ResetLrSetup ==
    Step("r_lr_setup", "setup", "setup@673", DisableRangeReq(args), InjectPlain,
         {"exact"}, AfterDisableRange)

(* ------------------------------------------------------------------ *)
(* Return to the caller                                                 *)
(* ------------------------------------------------------------------ *)
Return ==
    /\ pc \in {"done", "aborted"}
    /\ prev' = IF pc = "done" /\ op \in {"lock", "unlock"}
               THEN [op |-> op, seg |-> args.seg, ok |-> r = 0,
                     saved |-> (Len(calls) > 0 /\ calls[Len(calls)].q.save = 1
                                /\ calls[Len(calls)].ret = OPAL_STATUS_SUCCESS),
                     faulted |-> faulted,
                     locked0 |-> entry.locked, saved0 |-> entry.saved]
               ELSE NoPrev
    /\ pc' = "idle"
    /\ op' = "none"
    /\ args' = NoArgs
    /\ r' = 0
    /\ calls' = <<>>
    /\ heap' = {}
    /\ ptr' = NoPtrs
    /\ stack' = 0
    /\ blk' = 0
    /\ chk' = NoChk
    /\ faulted' = FALSE
    /\ entry' = NoEntry
    /\ logged' = {}
    /\ UNCHANGED drive

(* ------------------------------------------------------------------ *)
(* Specifications                                                       *)
(* ------------------------------------------------------------------ *)
\* provisioning and reset, from a drive as shipped
Next ==
    \/ CallSetupRanges
    \/ SetupOpen
    \/ SetupTakeOwnership
    \/ SetupActivateLsp
    \/ SetupErase
    \/ SetupSecureErase
    \/ SetupActivateUsr
    \/ SetupAddUsrRo
    \/ SetupAddUsrRw
    \/ SetupSetPw
    \/ SetupLrSetup
    \/ SetupLock
    \/ VerifyGeometry
    \/ VerifyStatus
    \/ CallResetSegment
    \/ ResetEnabled
    \/ ResetErase
    \/ ResetSecureErase
    \/ ResetLrSetup
    \/ CallFactoryReset
    \/ FactoryResetIoctl
    \/ Return

Spec == Init /\ [][Next]_vars

\* the drive after the control calls of a complete opal_setup_ranges run on a
\* fresh drive, each answered by the drive itself; qSetup and qLock are the
\* quirks of the drive at the configure-range and at the lock call
RECURSIVE Apply(_, _, _)
Apply(d, qs, quirks) ==
    IF qs = <<>> THEN d
    ELSE Apply(DriveExec(d, Head(qs), Head(quirks)).drive, Tail(qs), Tail(quirks))

SetupCalls(a) ==
    <<TakeOwnershipReq(a), ActivateLspReq(a), ActivateUsrReq(a),
      AddUsrToLrReq(a, OPAL_RO), AddUsrToLrReq(a, OPAL_RW), SetPwReq(a),
      LrSetupReq(a), SetupLockReq(a)>>

Provisioned(bs, a, qSetup, qLock) ==
    Apply(FreshDrive({"SUPPORTED", "LOCKING_SUPPORTED"}, bs, {a.seg}), SetupCalls(a),
          <<"exact", "exact", "exact", "exact", "exact", "exact", qSetup, qLock>>)

SetupArgs ==
    {[NoArgs EXCEPT !.seg = seg, !.vk = vk, !.vk_len = OPAL_KEY_MAX, !.has_vk = TRUE,
                    !.admin = admin, !.admin_len = OPAL_KEY_MAX,
                    !.start = start, !.length = length] :
        seg \in Segs, vk \in Keys, admin \in Keys, start \in Sectors, length \in Sectors}

\* a range whose lock state was set to read-only (OPAL_RO) with the user key
ReadOnlyRange(d, seg) == [d EXCEPT !.range[seg].l_state = OPAL_RO]

\* locking and unlocking, on a drive as shipped or as opal_setup_ranges leaves it
InitLock ==
    /\ \/ \E caps \in Capabilities, bs \in BlockSizes, seg \in Segs :
             drive = FreshDrive(caps, bs, {seg})
       \/ \E bs \in BlockSizes, a \in SetupArgs :
             drive = Provisioned(bs, a, "exact", "exact")
    /\ Frame0

NextLock ==
    \/ CallLock
    \/ CallUnlock
    \/ LockUnlockSupported
    \/ LockUnlockIoctl
    \/ LockUnlockSave
    \/ Return

SpecLock == InitLock /\ [][NextLock]_vars

\* the queries and the verifier, on a drive as shipped or as opal_setup_ranges
\* leaves it, whatever the drive did with the range it was given
InitQuery ==
    /\ \/ \E caps \in Capabilities, bs \in BlockSizes, seg \in Segs :
             drive = FreshDrive(caps, bs, {seg})
       \/ \E bs \in BlockSizes, a \in SetupArgs,
             qSetup \in {"exact", "round", "noenable"}, qLock \in {"exact", "nolock"} :
             drive = Provisioned(bs, a, qSetup, qLock)
       \/ \E bs \in BlockSizes, a \in SetupArgs :
             drive = ReadOnlyRange(Provisioned(bs, a, "exact", "exact"), a.seg)
    /\ Frame0

NextQuery ==
    \/ CallSupported
    \/ CallEnabled
    \/ CallGeometry
    \/ CallRangeCheck
    \/ VerifyGeometry
    \/ VerifyStatus
    \/ Return

SpecQuery == InitQuery /\ [][NextQuery]_vars

(* ------------------------------------------------------------------ *)
(* opal_status_table, opal_status_to_string                             *)
(* ------------------------------------------------------------------ *)
\* the largest errno and the distance above the table top that are tried
MaxErrno == 95
MaxAbove == 2

StatusCodes == (0 - MaxErrno)..(OPAL_STATUS_MAX + MaxAbove)

\* a const char *: the null pointer, a string literal, or what strerror gives
NullStr == [null |-> TRUE, text |-> "", errno |-> 0]
Str(s) == [null |-> FALSE, text |-> s, errno |-> 0]
strerror(e) == [null |-> FALSE, text |-> "strerror", errno |-> e]

StatusNames ==
    <<"success", "not authorized", "obsolete", "SP busy", "SP failed",
      "SP disabled", "SP frozen", "no sessions available", "uniqueness conflict",
      "insufficient space", "insufficient rows", "invalid parameter", "obsolete",
      "obsolete", "TPer malfunction", "transaction failure", "response overflow",
      "authority locked out">>

\* the array has _OPAL_STATUS_MAX elements; those without an initializer
\* are null pointers
opal_status_table ==
    [t \in 0..(OPAL_STATUS_MAX - 1) |->
        IF t < Len(StatusNames) THEN Str(StatusNames[t + 1])
        ELSE IF t = OPAL_STATUS_FAIL THEN Str("unknown failure")
        ELSE NullStr]

opal_status_to_string(t) ==
    IF t < 0 THEN strerror(0 - t)
    ELSE IF t >= OPAL_STATUS_MAX THEN Str("unknown error")
    ELSE opal_status_table[t]

\* a log statement formats the result r of a call
StatusToString ==
    /\ pc = "idle"
    /\ op' = "status_to_string"
    /\ pc' = "done"
    /\ logged' = {opal_status_to_string(r)}
    /\ UNCHANGED <<drive, args, r, calls, heap, ptr, stack, blk, chk, faulted, entry, prev>>

\* the translator, over the results a call can have
InitStatus ==
    /\ drive = FreshDrive({"SUPPORTED", "LOCKING_SUPPORTED"}, SECTOR_SIZE, Segs)
    /\ pc = "idle"
    /\ op = "none"
    /\ args = NoArgs
    /\ r \in StatusCodes
    /\ calls = <<>>
    /\ heap = {}
    /\ ptr = NoPtrs
    /\ stack = 0
    /\ blk = 0
    /\ chk = NoChk
    /\ faulted = FALSE
    /\ entry = NoEntry
    /\ logged = {}
    /\ prev = NoPrev

NextStatus ==
    \/ StatusToString
    \/ Return

SpecStatus == InitStatus /\ [][NextStatus]_vars

(* ------------------------------------------------------------------ *)
(* Properties                                                           *)
(* ------------------------------------------------------------------ *)
Returned(name) == pc = "done" /\ op = name
Last == calls[Len(calls)]
AllAccepted == \A i \in 1..Len(calls) : calls[i].ret = OPAL_STATUS_SUCCESS
Issued(name) == {i \in 1..Len(calls) : calls[i].q.ioc = name}
\* opal_enabled found the locking feature not enabled
SawNeverEnabled ==
    /\ Len(calls) >= 1
    /\ calls[1].q.ioc = "GET_STATUS"
    /\ calls[1].ret >= 0
    /\ "LOCKING_ENABLED" \notin calls[1].out.flags

\* the verifier of opal_setup_ranges read the range back
ReadBackDone == Len(calls) >= 2 /\ Last.q.ioc = "GET_LR_STATUS"
ReadBackBlock == calls[Len(calls) - 1].out.block
ReadBackAsRequested ==
    /\ Last.out.l_state = OPAL_LK
    /\ Last.out.RLE = 1
    /\ Last.out.WLE = 1
    /\ (Last.out.start * ReadBackBlock) \div SECTOR_SIZE = args.start
    /\ (Last.out.length * ReadBackBlock) \div SECTOR_SIZE = args.length

\* C1: whenever opal_setup_ranges returns success, the range read back from
\* the drive is fully locked, has both enable flags set, and its start and
\* length converted to sectors equal the requested ones; when every control
\* call returned success but the range read back is not so, it returns -EINVAL
C1_SetupSuccessMeansVerified ==
    /\ (Returned("setup_ranges") /\ r = 0) => (ReadBackDone /\ ReadBackAsRequested)
    /\ (Returned("setup_ranges") /\ ReadBackDone /\ AllAccepted /\ ~ReadBackAsRequested)
          => r = 0 - EINVAL

C1_Witness == Returned("setup_ranges") /\ r = 0 /\ ReadBackDone /\ args.length > 0

\* C2: for every logical block size and every requested start and length, on
\* a drive that stores exactly what it is given and accepts every call,
\* opal_setup_ranges succeeds
C2_SetupSucceedsOnExactDrive ==
    (Returned("setup_ranges") /\ ~faulted /\ ReadBackDone /\ AllAccepted) => r = 0

\* C3: in opal_setup_ranges on a drive whose locking was never enabled, the
\* first control call after the status query is take-ownership, and when it
\* answers not-authorized the operation returns -EPERM with no further call
C3_TakeOwnershipFirst ==
    (op = "setup_ranges" /\ SawNeverEnabled /\ Len(calls) >= 2) =>
        /\ calls[2].q.ioc = "TAKE_OWNERSHIP"
        /\ calls[2].ret = OPAL_STATUS_NOT_AUTHORIZED =>
              (Len(calls) = 2 /\ pc = "done" /\ r = 0 - EPERM)

C3_Witness ==
    /\ Returned("setup_ranges") /\ SawNeverEnabled /\ Len(calls) = 2
    /\ calls[2].q.ioc = "TAKE_OWNERSHIP"
    /\ calls[2].ret = OPAL_STATUS_NOT_AUTHORIZED
    /\ ~faulted
    /\ r = 0 - EPERM

OversizeKey ==
    \/ args.has_vk /\ args.vk_len > OPAL_KEY_MAX
    \/ args.admin_len > OPAL_KEY_MAX

\* C4: an operation given a key longer than OPAL_KEY_MAX issues no control
\* call, status and geometry queries included, and returns -EINVAL (stated
\* for runs in which the device opens and the drive answers every call itself)
C4_OversizeKeyRejectedFirst ==
    (pc # "idle" /\ OversizeKey /\ ~faulted) =>
        /\ calls = <<>>
        /\ pc # "aborted"
        /\ pc = "done" => r = 0 - EINVAL

\* C5: when an operation returns, no buffer it allocated for key material is
\* left unreleased and no key copy is left on its stack
C5_NoKeyBufferLeft == pc = "done" => (heap = {} /\ stack = 0)

\* the configure-range calls of opal_reset_segment
ResetPlainEraseFailed ==
    /\ Issued("ERASE_LR") # {}
    /\ \A i \in Issued("ERASE_LR") : calls[i].ret # OPAL_STATUS_SUCCESS
ResetSecureEraseOk ==
    \E i \in Issued("SECURE_ERASE_LR") : calls[i].ret = OPAL_STATUS_SUCCESS
ResetPlainEraseOk ==
    \E i \in Issued("ERASE_LR") : calls[i].ret = OPAL_STATUS_SUCCESS
OneRangeDisable ==
    /\ Cardinality(Issued("LR_SETUP")) = 1
    /\ \A i \in Issued("LR_SETUP") :
          /\ i = Len(calls)
          /\ calls[i].q.who = OPAL_ADMIN1
          /\ calls[i].q.lr = args.seg
          /\ calls[i].q.key = args.admin
          /\ calls[i].q.range_start = 0
          /\ calls[i].q.range_length = 0
NoFollowUp == Issued("LR_SETUP") = {} /\ Issued("SECURE_ERASE_LR") = {}

\* C6 as stated: in opal_reset_segment, when plain erase fails and secure
\* erase succeeds exactly one configure-range call follows, as Admin1 on the
\* same range with start 0 and length 0; when plain erase succeeds there is
\* no configure-range and no secure-erase call
C6_Stated ==
    Returned("reset_segment") =>
        /\ (ResetPlainEraseFailed /\ ResetSecureEraseOk) => OneRangeDisable
        /\ ResetPlainEraseOk => NoFollowUp

\* C6 amended: the configure-range call follows provided the allocation of
\* its parameter block succeeds; when that allocation fails no configure-range
\* call is issued and opal_reset_segment returns -ENOMEM
C6_Amended ==
    Returned("reset_segment") =>
        /\ (ResetPlainEraseFailed /\ ResetSecureEraseOk) =>
              \/ ptr.setup # "NULL" /\ OneRangeDisable
              \/ ptr.setup = "NULL" /\ Issued("LR_SETUP") = {} /\ r = 0 - ENOMEM
        /\ ResetPlainEraseOk => NoFollowUp

C6_Witness ==
    /\ Returned("reset_segment") /\ ResetPlainEraseFailed /\ ResetSecureEraseOk
    /\ OneRangeDisable /\ r = 0

\* a lock without key that directly follows a successful unlock of the same
\* range, on a drive that supports locking and with no fault in the lock
LockAfterUnlock ==
    /\ Returned("lock") /\ ~faulted
    /\ prev.op = "unlock" /\ prev.ok /\ prev.seg = args.seg
RangeLocked == drive.range[args.seg].l_state = OPAL_LK

SecondLock ==
    /\ Returned("lock") /\ ~faulted
    /\ prev.op = "lock" /\ prev.seg = args.seg /\ ~prev.faulted /\ prev.locked0

\* C8 as stated: two locks in a row of an already-locked range both return
\* success and the range stays fully locked
C8_Stated == SecondLock => (prev.ok /\ r = 0 /\ RangeLocked)

\* C8 amended: the same, for a range whose user key the kernel holds from
\* the save call of a successful unlock
C8_Amended == (SecondLock /\ prev.saved0) => (prev.ok /\ r = 0 /\ RangeLocked)

C8_Witness == SecondLock /\ prev.saved0 /\ prev.ok /\ r = 0 /\ RangeLocked

\* C9: opal_factory_reset returns -EPERM when the PSID-revert call answers
\* not-authorized, -EINVAL for every other positive status, and 0 only for
\* status 0
C9_FactoryResetClassification ==
    (Returned("factory_reset") /\ Len(calls) = 1) =>
        /\ Last.q.ioc = "PSID_REVERT_TPR"
        /\ Last.ret = OPAL_STATUS_NOT_AUTHORIZED => r = 0 - EPERM
        /\ (Last.ret > 0 /\ Last.ret # OPAL_STATUS_NOT_AUTHORIZED) => r = 0 - EINVAL
        /\ r = 0 <=> Last.ret = OPAL_STATUS_SUCCESS

C9_Witness ==
    /\ Returned("factory_reset") /\ Len(calls) = 1 /\ ~faulted
    /\ Last.ret = OPAL_STATUS_NOT_AUTHORIZED /\ r = 0 - EPERM

\* C10: whenever the drive itself answers not-authorized to the last call of
\* an operation, the key being wrong, the operation returns -EPERM
C10_WrongKeyIsUnauthorized ==
    (pc = "done" /\ ~faulted /\ Len(calls) >= 1
        /\ Last.ret = OPAL_STATUS_NOT_AUTHORIZED
        /\ Last.q.ioc \in {"TAKE_OWNERSHIP", "SECURE_ERASE_LR", "LOCK_UNLOCK",
                           "PSID_REVERT_TPR"})
    => r = 0 - EPERM

\* the control calls of opal_setup_ranges, by name
CallNames == [i \in 1..Len(calls) |-> calls[i].q.ioc]
IsPrefix(s, t) == Len(s) <= Len(t) /\ \A i \in 1..Len(s) : s[i] = t[i]
\* what follows the first phase on the success path
CommonCalls ==
    <<"ACTIVATE_USR", "ADD_USR_TO_LR", "ADD_USR_TO_LR", "SET_PW", "LR_SETUP",
      "LOCK_UNLOCK", "GET_GEOMETRY", "GET_LR_STATUS">>
SuccessPaths ==
    {<<"GET_STATUS", "TAKE_OWNERSHIP", "ACTIVATE_LSP">> \o CommonCalls,
     <<"GET_STATUS", "ERASE_LR">> \o CommonCalls,
     <<"GET_STATUS", "ERASE_LR", "SECURE_ERASE_LR">> \o CommonCalls}
\* a call that failed, the erase that secure erase makes up for apart
FailedCalls ==
    {i \in 1..Len(calls) :
        /\ calls[i].q.ioc # "ERASE_LR"
        /\ IF calls[i].q.ioc = "GET_STATUS" THEN calls[i].ret < 0
           ELSE calls[i].ret # OPAL_STATUS_SUCCESS}

C12_SaveOnlyAfterUnlockAndIgnored ==
    op \in {"lock", "unlock"} =>
        /\ \A i \in Issued("SAVE") :
              /\ op = "unlock"
              /\ i = Len(calls) /\ i >= 2
              /\ calls[i - 1].q.ioc = "LOCK_UNLOCK"
              /\ calls[i - 1].ret = OPAL_STATUS_SUCCESS
              /\ Issued("LOCK_UNLOCK") = {i - 1}
              /\ pc = "done" /\ r = 0
        /\ \A i \in Issued("LOCK_UNLOCK") :
              calls[i].ret # OPAL_STATUS_SUCCESS => (i = Len(calls) /\ pc = "done" /\ r < 0)

C12_Witness ==
    /\ Returned("unlock") /\ Len(calls) = 3
    /\ Last.q.ioc = "SAVE" /\ Last.ret # OPAL_STATUS_SUCCESS
    /\ r = 0
    /\ drive.range[args.seg].l_state = OPAL_RW /\ drive.saved[args.seg] = 0

\* the status query of opal_lock_unlock found no Opal support reported
NoSupportSeen ==
    /\ Len(calls) >= 1
    /\ calls[1].q.ioc = "GET_STATUS"
    /\ calls[1].out.flags \cap {"SUPPORTED", "LOCKING_SUPPORTED"} = {}

C14_ResetNeedsEnabledLocking ==
    (op = "reset_segment" /\ Len(calls) >= 1
        /\ "LOCKING_ENABLED" \notin calls[1].out.flags)
    => (Len(calls) = 1 /\ calls[1].q.ioc = "GET_STATUS" /\ pc = "done" /\ r = 0 - EINVAL)

C14_Witness ==
    /\ Returned("reset_segment") /\ ~faulted /\ ~drive.enabled /\ drive.owner # 0
    /\ Len(calls) = 1 /\ SawNeverEnabled
    /\ r = 0 - EINVAL

\* opal_range_check_attributes got both of its queries answered with success
RangeChecked ==
    /\ Returned("range_check_attributes")
    /\ Len(calls) = 2 /\ AllAccepted
    /\ calls[1].q.ioc = "GET_GEOMETRY" /\ calls[2].q.ioc = "GET_LR_STATUS"
\* the values derived from what the drive reported
DerivedOffset == (Last.out.start * calls[1].out.block) \div SECTOR_SIZE
DerivedLength == (Last.out.length * calls[1].out.block) \div SECTOR_SIZE
DerivedReadLocked == Last.out.l_state = OPAL_LK
DerivedWriteLocked == Last.out.l_state \in {OPAL_LK, OPAL_RO}
\* the checks that do not pass, each taken alone
FailingChecks ==
    (IF chk.off # <<>> /\ chk.off[1] # DerivedOffset THEN {"offset"} ELSE {})
    \cup (IF chk.len # <<>> /\ chk.len[1] # DerivedLength THEN {"length"} ELSE {})
    \cup (IF Last.out.RLE = 0 \/ Last.out.WLE = 0 THEN {"disabled"} ELSE {})
    \cup (IF chk.rd # <<>> /\ chk.rd[1] # DerivedReadLocked THEN {"read"} ELSE {})
    \cup (IF chk.wr # <<>> /\ chk.wr[1] # DerivedWriteLocked THEN {"write"} ELSE {})

\* C15: once both queries succeeded, opal_range_check_attributes returns 0
\* exactly when both enable flags are set and every expectation supplied
\* equals the derived value, and -EINVAL otherwise; an omitted expectation
\* fails nothing, cleared enable flags always fail, and every check that
\* does not pass is reported, whatever the checks before it found
C15_RangeCheckIffAllChecksPass ==
    RangeChecked =>
        /\ r = 0 <=> FailingChecks = {}
        /\ r # 0 => r = 0 - EINVAL
        /\ logged = FailingChecks

C15_Witness ==
    /\ RangeChecked /\ ~faulted
    /\ chk.off = <<>> /\ chk.len # <<>>
    /\ {"length", "read", "write"} \subseteq logged
    /\ r = 0 - EINVAL

\* C16: the verifier takes a range for read-locked exactly when the drive
\* reports it fully locked, and for write-locked exactly when the drive
\* reports it fully locked or read-only (a read-write range is neither),
\* for each lock state a drive reports
C16_LockStateDerivation ==
    RangeChecked =>
        /\ Last.out.l_state \in {OPAL_RO, OPAL_RW, OPAL_LK}
        /\ chk.rd # <<>> =>
              ("read" \in logged <=> chk.rd[1] # (Last.out.l_state = OPAL_LK))
        /\ chk.wr # <<>> =>
              ("write" \in logged <=>
                   chk.wr[1] # CASE Last.out.l_state = OPAL_LK -> TRUE
                                 [] Last.out.l_state = OPAL_RO -> TRUE
                                 [] Last.out.l_state = OPAL_RW -> FALSE)

C16_Witness ==
    /\ RangeChecked
    /\ Last.out.l_state = OPAL_RO
    /\ chk.rd = <<FALSE>> /\ chk.wr = <<TRUE>>
    /\ r = 0

\* opal_supported or opal_enabled returned
StatusQueried == Returned("supported") \/ Returned("enabled")
\* the flag bits the operation tests
TestedBits ==
    IF op = "supported" THEN {"SUPPORTED", "LOCKING_SUPPORTED"} ELSE {"LOCKING_ENABLED"}

\* C17: opal_supported and opal_enabled return 0 (false, not an error) when
\* the status query succeeds and the tested flag bits are clear, return -EIO
\* when the device cannot be opened, and return a negative value different
\* from -EIO whenever the status query fails, be it with a negative system
\* error or with a non-zero protocol status
C17_QueryStatusErrors ==
    StatusQueried =>
        /\ calls = <<>> => r = 0 - EIO
        /\ calls # <<>> =>
              /\ Last.q.ioc = "GET_STATUS"
              /\ (Last.ret = OPAL_STATUS_SUCCESS /\ Last.out.flags \cap TestedBits = {})
                     => r = 0
              /\ Last.ret # OPAL_STATUS_SUCCESS => (r < 0 /\ r # 0 - EIO)

\* C18: opal_supported returns 1 only when the status flags hold both the
\* Opal-supported bit and the locking-supported bit; with only one of the
\* two it returns 0
C18_SupportedNeedsBothBits ==
    (Returned("supported") /\ calls # <<>> /\ Last.ret = OPAL_STATUS_SUCCESS) =>
        (r = 1 <=> {"SUPPORTED", "LOCKING_SUPPORTED"} \subseteq Last.out.flags)

\* C19: opal_status_to_string gives a string for every integer, never a null
\* pointer: "success" for 0, "unknown error" from _OPAL_STATUS_MAX upwards,
\* the strerror text of -t for a negative t, and a string as well for the
\* codes between the last named status and OPAL_STATUS_FAIL
C19_StatusStringTotal ==
    Returned("status_to_string") =>
        \A s \in logged :
            /\ ~s.null
            /\ r = 0 => s = Str("success")
            /\ r >= OPAL_STATUS_MAX => s = Str("unknown error")
            /\ r < 0 => s = strerror(0 - r)

\* the operation returned without having issued a call, on a fault of the
\* environment: its first device_open, or the one of the status query it
\* starts with, failed
NotOpened == pc = "done" /\ faulted /\ calls = <<>>

\* C20: an operation that cannot open the device returns -EIO; stated for
\* opal_setup_ranges, opal_reset_segment, opal_factory_reset and
\* opal_range_check_attributes
C20_NotOpenedIsIo ==
    (NotOpened /\ op \in {"setup_ranges", "reset_segment", "factory_reset",
                          "range_check_attributes"})
        => r = 0 - EIO

\* the configure-range calls opal_setup_ranges issued
SetupLrCalls ==
    {i \in 1..Len(calls) : op = "setup_ranges" /\ calls[i].q.ioc = "LR_SETUP"}

\* C21: the configure-range call of opal_setup_ranges carries the requested
\* start and length converted from sectors to blocks of the drive's logical
\* block size (sectors * 512 / block size), has both enable flags set and is
\* authenticated as Admin1 with the admin key, for every block size
C21_LrSetupInBlocks ==
    \A i \in SetupLrCalls :
        /\ calls[i].q.range_start = (args.start * SECTOR_SIZE) \div drive.block
        /\ calls[i].q.range_length = (args.length * SECTOR_SIZE) \div drive.block
        /\ calls[i].q.RLE = 1 /\ calls[i].q.WLE = 1
        /\ calls[i].q.who = OPAL_ADMIN1
        /\ calls[i].q.key = args.admin /\ calls[i].q.key_len = args.admin_len

\* opal_setup_ranges returned success
SetupSucceeded == Returned("setup_ranges") /\ r = 0
\* the position of the activate-user call on the success path
UsrAt == Len(calls) - 7

BusyCalls ==
    {i \in 1..Len(calls) :
        calls[i].ret = OPAL_STATUS_SP_BUSY /\ calls[i].q.ioc # "ERASE_LR"}

\* no call is repeated within one operation, add-user-to-range is issued at
\* most once for each access class, and secure erase only follows a failed erase
NoCallRepeated ==
    /\ \A i, j \in 1..Len(calls) :
          (i < j /\ calls[i].q.ioc = calls[j].q.ioc) =>
              /\ calls[i].q.ioc = "ADD_USR_TO_LR"
              /\ calls[i].q.l_state # calls[j].q.l_state
    /\ \A i \in Issued("SECURE_ERASE_LR") :
          /\ i > 1 /\ calls[i - 1].q.ioc = "ERASE_LR"
          /\ calls[i - 1].ret # OPAL_STATUS_SUCCESS
          /\ op \in {"setup_ranges", "reset_segment"}

\* C23: no operation retries a failed call: each call is issued at most once
\* in an operation (add-user-to-range once per access class), the only call
\* made in reaction to a failure is the secure erase after a failed erase in
\* opal_setup_ranges and opal_reset_segment, and a call answered SP busy is
\* the last one of its operation, which returns an error (a value other than 0)
C23_NoRetryBusyIsFailure ==
    /\ NoCallRepeated
    /\ \A i \in BusyCalls : i = Len(calls) /\ pc = "done" /\ r # 0

\* opal_setup_ranges found the drive owned with another key than the one it
\* was given, locking not enabled: an earlier opal_setup_ranges took
\* ownership and failed to activate the locking SP
RetryWithOtherKey ==
    /\ op = "setup_ranges" /\ SawNeverEnabled /\ Len(calls) >= 2
    /\ drive.owner # 0 /\ ~drive.enabled
    /\ args.admin # drive.owner

\* C24: when, on a drive reporting locking not enabled, take-ownership
\* succeeded and activate-locking-SP failed, opal_setup_ranges is over with -EINVAL and the drive is owned with the
\* admin key, its locking not enabled; an opal_setup_ranges on a drive whose
\* locking is not enabled issues take-ownership right after the status
\* query; called with another admin key than the owner's it ends at that
\* call with a negative value, -EPERM when the drive answers not-authorized,
\* so that success on the never-enabled branch implies the owner's key
C24_RetryAfterFailedActivation ==
    /\ (op = "setup_ranges" /\ SawNeverEnabled /\ calls[1].ret = OPAL_STATUS_SUCCESS
           /\ Len(calls) >= 3 /\ calls[3].q.ioc = "ACTIVATE_LSP"
           /\ calls[3].ret # OPAL_STATUS_SUCCESS)
          => /\ Len(calls) = 3 /\ pc = "done" /\ r = 0 - EINVAL
             /\ drive.owner = args.admin /\ ~drive.enabled
    /\ (op = "setup_ranges" /\ Len(calls) >= 2 /\ calls[1].ret = OPAL_STATUS_SUCCESS
           /\ ~drive.enabled)
          => calls[2].q = TakeOwnershipReq(args)
    /\ RetryWithOtherKey
          => /\ Len(calls) = 2 /\ pc = "done" /\ r < 0
             /\ calls[2].ret = OPAL_STATUS_NOT_AUTHORIZED => r = 0 - EPERM
    /\ (SetupSucceeded /\ SawNeverEnabled)
          => (calls[2].ret = OPAL_STATUS_SUCCESS /\ args.admin = drive.owner)

C24_Witness ==
    /\ RetryWithOtherKey /\ ~faulted
    /\ Returned("setup_ranges") /\ r = 0 - EPERM
    /\ Last.q.ioc = "TAKE_OWNERSHIP" /\ Last.ret = OPAL_STATUS_NOT_AUTHORIZED

QueryCalls == {"GET_STATUS", "GET_GEOMETRY", "GET_LR_STATUS"}

\* C25: opal_supported, opal_enabled, opal_geometry and
\* opal_range_check_attributes issue the status, geometry and range-status
\* queries only, and no step of theirs changes the drive (owner, locking
\* enabled, ranges with their enable flags and lock state, users and their
\* keys), whatever they return
C25_QueriesChangeNothing ==
    [][/\ drive' = drive
       /\ \A i \in 1..Len(calls') : calls'[i].q.ioc \in QueryCalls]_vars

C25_Witness ==
    /\ Returned("range_check_attributes") /\ ~faulted
    /\ Len(calls) = 2 /\ r = 0 - EINVAL
    /\ drive.enabled /\ drive.range[args.seg].l_state = OPAL_LK
    /\ drive.userPw[args.seg] = args.vk

\* the first authenticated call of the operation in flight: take-ownership in
\* opal_setup_ranges, the lock-state change in opal_lock and opal_unlock, the
\* PSID revert in opal_factory_reset
FirstAuthCalls ==
    {i \in 1..Len(calls) :
        \/ op = "setup_ranges" /\ calls[i].q.ioc = "TAKE_OWNERSHIP"
        \/ op \in {"lock", "unlock"} /\ calls[i].q.ioc = "LOCK_UNLOCK"
        \/ op = "factory_reset" /\ calls[i].q.ioc = "PSID_REVERT_TPR"}

MutatingCalls ==
    {i \in 1..Len(calls) : calls[i].q.ioc \notin QueryCalls}

====
